---- MODULE Spec2Model ----
(***************************************************************************)
(* Model of gitlab_export_import.py: recursive export of a GitLab group    *)
(* tree to a directory tree, and import of such a directory tree into a    *)
(* destination instance.                                                   *)
(*                                                                         *)
(* Strings that the program builds by concatenation (file names, paths,    *)
(* namespaces) are sequences of tokens: "project_svc1.tar.gz" is           *)
(* <<"project_", "svc1", ".tar.gz">>, the namespace "destgrp/teamA" is     *)
(* <<"destgrp", "/", "teamA">>.  A filesystem path is a sequence of file   *)
(* names relative to the <directory> given on the command line of the      *)
(* export.  Python values whose type matters are tagged records.           *)
(***************************************************************************)
EXTENDS Naturals, Sequences, FiniteSets, TLC

\* ------------------------------------------------------------------ bounds
\* largest number of sleep intervals a remote job needs before it is finished
MaxPending == 2
\* a job that never finishes is created with this many intervals left
Never == MaxPending + 1
\* the number of status fetches of one job the model follows
MaxPolls == 4

\* largest number of remote calls that fail in one behaviour
MaxFaults == 1

\* ---------------------------------------------------------- program constants
\* number of items of the first page of a listing (`list()` without all=True)
PerPage == 20

METADATA_FILENAME == <<"metadata", ".json">>

metadata_keys == {"id", "parent_id", "created_at", "name", "full_name", "path", "full_path"}

\* ------------------------------------------------------------ python values
PyNone == [t |-> "None", v |-> "", n |-> 0]
PyInt(i) == [t |-> "int", v |-> "", n |-> i]
PyStr(s) == [t |-> "str", v |-> s, n |-> 0]

\* str(x) for x an int or None
str(x) == IF x.t = "None" THEN PyStr("None")
          ELSE IF x.t = "int" THEN PyStr(ToString(x.n))
          ELSE x

\* --------------------------------------------------------- sequence helpers
RECURSIVE JoinWith(_, _)
\* sep.join(parts) as a token string
JoinWith(parts, sep) ==
    IF Len(parts) = 0 THEN <<>>
    ELSE IF Len(parts) = 1 THEN <<parts[1]>>
    ELSE <<parts[1], sep>> \o JoinWith(Tail(parts), sep)

RECURSIVE Replace(_, _, _)
\* s.replace(old, new) on a token string
Replace(s, old, new) ==
    IF Len(s) = 0 THEN <<>>
    ELSE <<IF s[1] = old THEN new ELSE s[1]>> \o Replace(Tail(s), old, new)

Front(s) == SubSeq(s, 1, Len(s) - 1)
Last(s) == s[Len(s)]
Range(s) == {s[i] : i \in 1..Len(s)}
FirstN(s, n) == SubSeq(s, 1, IF Len(s) < n THEN Len(s) ELSE n)

\* ------------------------------------------------- the source instance (export)
\* Group and full project objects as the API returns them.  Projects have no
\* parent_id, full_name or full_path attribute.
MkGroup(id, parent, name, path, full) ==
    [id |-> id, parent_id |-> parent, name |-> name, path |-> path, full_path |-> full]

MkProject(id, group, name, path) ==
    [id |-> id, group |-> group, name |-> name, path |-> path]

\* teamA { svc1, sub1 { svc2 } }
SmallTree ==
    [groups |-> << MkGroup(1, 0, "Team A", "teamA", <<"teamA">>),
                   MkGroup(2, 1, "Sub 1", "sub1", <<"teamA", "/", "sub1">>) >>,
     projects |-> << MkProject(11, 1, "Service 1", "svc1"),
                     MkProject(12, 2, "Service 2", "svc2") >>]

\* a root group with more direct subgroups than one page of a listing holds
WideTree ==
    [groups |-> << MkGroup(1, 0, "Team A", "teamA", <<"teamA">>) >> \o
                [i \in 1..(PerPage + 1) |->
                    MkGroup(100 + i, 1, "G" \o ToString(i), "g" \o ToString(i),
                            <<"teamA", "/", "g" \o ToString(i)>>)],
     projects |-> << >>]

Trees == {SmallTree, WideTree}

\* teamA { svc1, svc3, sub1 { deep { svc2 } }, sub2 }
DeepTree ==
    [groups |-> << MkGroup(1, 0, "Team A", "teamA", <<"teamA">>),
                   MkGroup(2, 1, "Sub 1", "sub1", <<"teamA", "/", "sub1">>),
                   MkGroup(3, 1, "Sub 2", "sub2", <<"teamA", "/", "sub2">>),
                   MkGroup(4, 2, "Deep", "deep", <<"teamA", "/", "sub1", "/", "deep">>) >>,
     projects |-> << MkProject(11, 1, "Service 1", "svc1"),
                     MkProject(13, 1, "Service 3", "svc3"),
                     MkProject(12, 4, "Service 2", "svc2") >>]

\* the same groups, the listing of the subgroups of teamA in the other order
DeepTreeSwapped ==
    [DeepTree EXCEPT !.groups = <<DeepTree.groups[1], DeepTree.groups[3],
                                  DeepTree.groups[2], DeepTree.groups[4]>>]

ExportTrees == Trees \cup {DeepTree, DeepTreeSwapped}

\* values of --root on an export: an existing group and a missing one
ExportRoots == {<<"teamA">>, <<"nosuch">>}

\* ------------------------------------------- the destination instance (import)
\* the groups of the destination that exist before any import, by full path
DestGroupId(path) == IF path = <<"destgrp">> THEN PyInt(7) ELSE PyNone

\* values of --root on an import: not given, an existing group, a missing one
ImportRoots == {<<>>, <<"destgrp">>, <<"nogrp">>}

\* values of <directory> on an import: the output folder of the export, and
\* the folder of the exported root group in it
ImportDirs == {<<>>, << <<"teamA">> >>}

\* --------------------------------------------------------------- file names
GroupArchiveName(path) == <<"group_", path, ".tar.gz">>
ProjectArchiveName(path) == <<"project_", path, ".tar.gz">>

\* fnmatch(filename, "*.json")
FnmatchJson(name) == Len(name) >= 1 /\ Last(name) = ".json"
\* fnmatch(filename, FILENAME_PATTERN_GROUP)
FnmatchGroup(name) == Len(name) >= 2 /\ name[1] = "group_" /\ Last(name) = ".tar.gz"
\* fnmatch(filename, FILENAME_PATTERN_PROJECT)
FnmatchProject(name) == Len(name) >= 2 /\ name[1] = "project_" /\ Last(name) = ".tar.gz"

get_filepath_group_metadata(path) == Append(path, METADATA_FILENAME)
get_filepath_project_metadata(path) == Append(Front(path), Last(path) \o <<".json">>)

\* ------------------------------------------------------------ the filesystem
\* The disk is the sequence of its entries in creation order; listing a
\* directory yields its entries in that order.
NoMeta == [k \in {} |-> ""]
DirEntry(path) == [path |-> path, kind |-> "dir", data |-> "", meta |-> NoMeta]
FileEntry(path, data, meta) == [path |-> path, kind |-> "file", data |-> data, meta |-> meta]

Exists(d, path) == path = <<>> \/ \E i \in 1..Len(d) : d[i].path = path
IsDir(d, path) == path = <<>> \/ \E i \in 1..Len(d) : d[i].path = path /\ d[i].kind = "dir"
IsFile(d, path) == \E i \in 1..Len(d) : d[i].path = path /\ d[i].kind = "file"
Entry(d, path) == d[CHOOSE i \in 1..Len(d) : d[i].path = path]

\* open(path, "w"/"wb") followed by writing: creates or truncates the file
WriteFile(d, path, data, meta) ==
    IF Exists(d, path)
    THEN [i \in 1..Len(d) |-> IF d[i].path = path THEN FileEntry(path, data, meta) ELSE d[i]]
    ELSE Append(d, FileEntry(path, data, meta))

RECURSIVE MakeDirsFrom(_, _, _)
MakeDirsFrom(d, path, n) ==
    IF n > Len(path) THEN d
    ELSE LET p == SubSeq(path, 1, n)
         IN MakeDirsFrom(IF Exists(d, p) THEN d ELSE Append(d, DirEntry(p)), path, n + 1)

\* os.makedirs(path, exist_ok=True)
MakeDirs(d, path) == MakeDirsFrom(d, path, 1)

\* the entries directly inside a directory, in listing order
Listing(d, dir) ==
    SelectSeq(d, LAMBDA e : Len(e.path) = Len(dir) + 1 /\ Front(e.path) = dir)

\* _write_metadata_file: the attributes of obj among metadata_keys
MetadataOf(obj) == [k \in (metadata_keys \cap DOMAIN obj) |-> obj[k]]

\* _write_metadata_file: `assert "name" in metadata`, `assert "path" in metadata`
MetadataAsserts(md) == "name" \in DOMAIN md /\ "path" \in DOMAIN md

\* ------------------------------------------------------------- remote lookups
NoGroup == MkGroup(0, 0, "", "", <<>>)
NoProject == MkProject(0, 0, "", "")

\* gl.groups.get(path) on the source instance; NoGroup stands for GitlabGetError
RemoteGroupByPath(t, path) ==
    IF \E i \in 1..Len(t.groups) : t.groups[i].full_path = path
    THEN t.groups[CHOOSE i \in 1..Len(t.groups) : t.groups[i].full_path = path]
    ELSE NoGroup

\* get_group: the group object, or None (NoGroup) on GitlabGetError
get_group(t, gitlab_path) == RemoteGroupByPath(t, gitlab_path)

\* group.projects.list(all=True): every direct project of the group
ListProjects(t, g) == SelectSeq(t.projects, LAMBDA p : p.group = g.id)

\* group.subgroups.list(): the first page of the direct subgroups of the group
ListSubgroups(t, g) == FirstN(SelectSeq(t.groups, LAMBDA c : c.parent_id = g.id), PerPage)

\* ------------------------------------------------------------------ remote jobs
\* A job needs `pending` more sleep intervals until the remote side has
\* finished it; `script` is the value of pending at creation.  `state` is the
\* program's view: "open" while it handles the job, "finished" once it has
\* left the polling loop (or, for a group export, downloaded), "abandoned"
\* once a failed status fetch has ended the handling.  A `stuck` job never
\* finishes: its pending does not advance.
NewJob(kind, target, n) ==
    [kind |-> kind, target |-> target, script |-> n, pending |-> n,
     fetches |-> 0, downloads |-> 0, state |-> "open", stuck |-> (n = Never)]

\* the status a status fetch of the job reports
StatusOf(job) == IF job.pending = 0 THEN "finished" ELSE "started"

Sleep_Frozen(js) == js

\* sleep(delay_seconds): every unfinished remote job advances by one interval
Sleep(js) == [i \in 1..Len(js) |->
                [js[i] EXCEPT !.pending = IF js[i].stuck THEN @
                                        ELSE IF @ > 0 THEN @ - 1 ELSE 0]]

Fetched(js, i) == [js EXCEPT ![i].fetches = @ + 1]
Downloaded(js, i) == [js EXCEPT ![i].downloads = @ + 1]
Finished(js, i) == [js EXCEPT ![i].state = "finished"]
Abandoned(js, i) == [js EXCEPT ![i].state = "abandoned"]

\* ------------------------------------------------------------------- API calls
\* the log of the calls the run has made to the remote instance
Call(op, target) ==
    [op |-> op, target |-> target, name |-> "", file |-> <<>>, parent |-> PyNone]

ApiOutcomes == {"ok", "error"}
DownloadOutcomes == {"ok", "partial", "error"}

\* ---------------------------------------------------------------------- state
VARIABLES
    tree,           \* the group tree of the source instance
    destProjects,   \* full paths of the projects of the destination instance
    disk,           \* the filesystem under <directory> of the export
    mode, arg_root, no_groups, directory,   \* command line of the current run
    pc, err,        \* position of the program, and the error that ended the run
    export_folder,  \* GitlabImportExport.export_folder
    group, output_path, todo, project, stack,   \* locals of the export walk
    exporter, status,   \* current job handle (index in jobs, 0: None), last status
    jobs, calls, sleeps,    \* remote jobs, API calls and sleeps of the run
    metadata, parent_id,    \* locals of _import_groups
    walk, files, root, namespace, filepath, slug, name, \* locals of _import_projects
    visited,        \* the folders the walk of _import_projects has yielded
    walked,         \* the walk of _import_projects has reached its end
    prev, clean,    \* summary of the previous run; no archive was abandoned
    faults,         \* number of remote calls that have failed so far
    stuckable       \* the remote side may leave a project job unfinished for ever

argVars == <<mode, arg_root, no_groups, directory>>
exportVars == <<group, output_path, todo, project, stack>>
importVars == <<metadata, parent_id, walk, files, root, namespace, filepath, slug, name,
               visited, walked>>
vars == <<tree, destProjects, disk, argVars, pc, err, export_folder, exportVars,
          exporter, status, jobs, calls, sleeps, importVars, prev, clean, faults,
          stuckable>>

\* the outcomes the remote side may still choose from
Allowed(outcomes) == IF faults < MaxFaults THEN outcomes ELSE {"ok"}
\* every outcome other than "ok" is a failed remote call
Charged(o) == faults' = faults + (IF o = "ok" THEN 0 ELSE 1)

NoPrev == [mode |-> "", arg_root |-> <<>>, no_groups |-> FALSE, directory |-> <<>>,
           complete |-> FALSE]

\* the construction-time state, over the given source trees and remote sides
InitOf(trees, remotes) ==
    /\ tree \in trees
    /\ stuckable \in remotes
    /\ destProjects = {}
    /\ disk = <<>>
    /\ mode = "" /\ arg_root = <<>> /\ no_groups = FALSE /\ directory = <<>>
    /\ pc = "idle" /\ err = ""
    /\ export_folder = <<>>
    /\ group = NoGroup /\ output_path = <<>> /\ todo = <<>> /\ project = NoProject
    /\ stack = <<>>
    /\ exporter = 0 /\ status = ""
    /\ jobs = <<>> /\ calls = <<>> /\ sleeps = 0
    /\ metadata = NoMeta /\ parent_id = PyNone
    /\ walk = <<>> /\ files = <<>> /\ root = <<>> /\ namespace = <<>>
    /\ visited = {} /\ walked = FALSE
    /\ filepath = <<>> /\ slug = "" /\ name = ""
    /\ prev = NoPrev /\ clean = TRUE
    /\ faults = 0

Init == InitOf(Trees, {FALSE})

\* the numbers of intervals a new project job may need
Scripts == 0..MaxPending \cup (IF stuckable THEN {Never} ELSE {})

\* an uncaught exception ends the run
Raise(e) == pc' = "crashed" /\ err' = e

\* ----------------------------------------------------------------------- main
\* main(): parse the command line, check <directory>; a new process starts
\* with fresh program state, the disk and the remote instances persist.
\* An export is given an empty folder; an import without the group phase is
\* given no destination root or one that exists.
MainStart ==
    /\ pc \in {"idle", "done", "crashed"}
    /\ \E m \in {"export", "import"} :
         /\ m = "export" => disk = <<>>
         /\ mode' = m
         /\ IF m = "export"
            THEN /\ arg_root' \in ExportRoots
                 /\ no_groups' = FALSE
                 /\ directory' = <<>>
            ELSE /\ arg_root' \in ImportRoots
                 /\ no_groups' \in BOOLEAN
                 /\ no_groups' => (arg_root' = <<>> \/ DestGroupId(arg_root') # PyNone)
                 /\ directory' \in ImportDirs
    /\ prev' = IF mode = "import" /\ pc = "done" /\ clean /\ walked
               THEN [mode |-> mode, arg_root |-> arg_root, no_groups |-> no_groups,
                     directory |-> directory, complete |-> TRUE]
               ELSE NoPrev
    /\ clean' = TRUE
    /\ export_folder' = directory'
    /\ IF ~Exists(disk, directory') THEN Raise("FileNotFoundError")
       ELSE IF ~IsDir(disk, directory') THEN Raise("NotADirectoryError")
       ELSE pc' = "connect" /\ err' = ""
    /\ group' = NoGroup /\ output_path' = <<>> /\ todo' = <<>> /\ project' = NoProject
    /\ stack' = <<>>
    /\ exporter' = 0 /\ status' = ""
    /\ jobs' = <<>> /\ calls' = <<>> /\ sleeps' = 0
    /\ metadata' = NoMeta /\ parent_id' = PyNone
    /\ walk' = <<>> /\ files' = <<>> /\ root' = <<>> /\ namespace' = <<>>
    /\ visited' = {} /\ walked' = FALSE
    /\ filepath' = <<>> /\ slug' = "" /\ name' = ""
    /\ UNCHANGED <<tree, stuckable, destProjects, disk>>
    /\ UNCHANGED faults

\* main(): gl.version() and gl.auth(), then the dispatch on the mode
MainConnect ==
    /\ pc = "connect"
    /\ calls' = calls \o <<Call("version", <<>>), Call("auth", <<>>)>>
    /\ \E o \in Allowed(ApiOutcomes) :
         Charged(o) /\
         IF o = "error" THEN Raise("GitlabAuthenticationError")
         ELSE /\ pc' = IF mode = "export" THEN "export_group" ELSE "importing"
              /\ err' = ""
    /\ UNCHANGED <<tree, stuckable, destProjects, disk, argVars, export_folder, exportVars,
                   exporter, status, jobs, sleeps, importVars, prev, clean>>

\* --------------------------------------------------------------------- export
\* variant: the check of the lookup result is left out
GroupMissing_Never(g) == FALSE

\* _export_group, `if not group: raise RuntimeError`
GroupMissing(g) == g = NoGroup

\* _export_group: resolve the root group by path
ExportGroupLookup ==
    /\ pc = "export_group"
    /\ calls' = Append(calls, Call("groups.get", arg_root))
    /\ \E o \in Allowed(ApiOutcomes) :
         Charged(o) /\
         IF o = "error" THEN Raise("GitlabError") /\ group' = group
         ELSE LET g == get_group(tree, arg_root)
              IN IF GroupMissing(g)
                 THEN Raise("RuntimeError: No such group") /\ group' = group
                 ELSE pc' = "eg_create" /\ err' = "" /\ group' = g
    /\ UNCHANGED <<tree, stuckable,
                   destProjects, disk, argVars, export_folder, output_path, todo,
                   project, stack, exporter, status, jobs, sleeps, importVars, prev, clean>>

GroupExportDelay_Polled(js) == Fetched(Sleep(js), Len(js))

\* _export_group: `time.sleep(self.delay_seconds)` after the job's creation
GroupExportDelay(js) == Sleep(js)

GroupFolder_WithMetadata(d, folder, g) ==
    WriteFile(MakeDirs(d, folder), get_filepath_group_metadata(folder), "json",
              MetadataOf(g))

\* _export_group: `os.makedirs(self.export_folder, exist_ok=True)`
GroupFolder(d, folder, g) == MakeDirs(d, folder)

\* _export_group: create the group export job, sleep once, create the folder
ExportGroupCreate ==
    /\ pc = "eg_create"
    /\ calls' = Append(calls, Call("group.exports.create", group.full_path))
    /\ \E o \in Allowed(ApiOutcomes) :
         Charged(o) /\
         IF o = "error"
         THEN /\ exporter' = 0
              /\ jobs' = Sleep(jobs)
         ELSE \E n \in 0..MaxPending :
                /\ exporter' = Len(jobs) + 1
                /\ jobs' = GroupExportDelay(
                              Append(jobs, NewJob("group_export", group.full_path, n)))
    /\ sleeps' = sleeps + 1
    /\ export_folder' = Append(export_folder, <<group.path>>)
    /\ disk' = GroupFolder(disk, export_folder', group)
    /\ pc' = "eg_download"
    /\ UNCHANGED <<tree, stuckable, destProjects, argVars, err, exportVars, status, importVars,
                   prev, clean>>

\* _export_group: download the group archive, write metadata.json
ExportGroupDownload ==
    /\ pc = "eg_download"
    /\ LET output_file == Append(export_folder, GroupArchiveName(group.path))
       IN IF exporter = 0
          THEN \* exporter is None: `exporter.download` raises AttributeError
               /\ disk' = WriteFile(disk, output_file, "empty", NoMeta)
               /\ Raise("AttributeError")
               /\ UNCHANGED <<calls, jobs, output_path, faults>>
          ELSE /\ calls' = Append(calls, Call("group.exports.download", group.full_path))
               /\ jobs' = Finished(Downloaded(jobs, exporter), exporter)
               /\ \E o \in Allowed(DownloadOutcomes) :
                    Charged(o) /\
                    IF o = "ok" /\ ~MetadataAsserts(MetadataOf(group))
                    THEN /\ disk' = WriteFile(disk, output_file, "full", NoMeta)
                         /\ Raise("AssertionError")
                         /\ output_path' = output_path
                    ELSE IF o = "ok"
                    THEN /\ disk' = WriteFile(
                                      WriteFile(disk, output_file, "full", NoMeta),
                                      get_filepath_group_metadata(export_folder),
                                      "json", MetadataOf(group))
                         /\ output_path' = export_folder
                         /\ pc' = "ep_list" /\ err' = ""
                    ELSE /\ disk' = WriteFile(disk, output_file,
                                      IF o = "partial" THEN "partial" ELSE "empty", NoMeta)
                         /\ Raise("GitlabError")
                         /\ output_path' = output_path
    /\ UNCHANGED <<tree, stuckable,
                   destProjects, argVars, export_folder, group, todo, project, stack,
                   exporter, status, sleeps, importVars, prev, clean>>

\* _export_projects: list the projects of the group
ExportProjectsList ==
    /\ pc = "ep_list"
    /\ calls' = Append(calls, Call("group.projects.list", group.full_path))
    /\ \E o \in Allowed(ApiOutcomes) :
         Charged(o) /\
         IF o = "error" THEN Raise("GitlabError") /\ todo' = todo
         ELSE pc' = "ep_next" /\ err' = "" /\ todo' = ListProjects(tree, group)
    /\ UNCHANGED <<tree, stuckable,
                   destProjects, disk, argVars, export_folder, group, output_path,
                   project, stack, exporter, status, jobs, sleeps, importVars, prev, clean>>

\* _export_projects: get the full object of the next project
ExportProjectGet ==
    /\ pc = "ep_next" /\ todo # <<>>
    /\ calls' = Append(calls, Call("projects.get", <<todo[1].path>>))
    /\ \E o \in Allowed(ApiOutcomes) :
         Charged(o) /\
         IF o = "error" THEN Raise("GitlabError") /\ UNCHANGED <<todo, project>>
         ELSE pc' = "xp_create" /\ err' = "" /\ project' = todo[1] /\ todo' = Tail(todo)
    /\ UNCHANGED <<tree, stuckable,
                   destProjects, disk, argVars, export_folder, group, output_path,
                   stack, exporter, status, jobs, sleeps, importVars, prev, clean>>

\* _export_projects returns; its caller goes on to _export_subprojects_recursive
ExportProjectsDone ==
    /\ pc = "ep_next" /\ todo = <<>>
    /\ pc' = "es_list"
    /\ UNCHANGED <<tree, stuckable, destProjects, disk, argVars, err, export_folder, exportVars,
                   exporter, status, jobs, calls, sleeps, importVars, prev, clean>>
    /\ UNCHANGED faults

\* variant: the polling loop is left at once
Waiting_Never(st) == FALSE

\* the condition of the polling loops: `status != 'finished'`
Waiting(st) == st # "finished"

ExportFailed_EndsRun == "done"

\* export_project: `return` in the handlers of GitlabError, back to the loop
\* of _export_projects
ExportFailed == "ep_next"

\* export_project: project.exports.create()
ExportProjectCreate ==
    /\ pc = "xp_create"
    /\ calls' = Append(calls, Call("project.exports.create", <<project.path>>))
    /\ \E o \in Allowed(ApiOutcomes) :
         Charged(o) /\
         IF o = "error"
         THEN \* logged; this project's export is given up
              /\ pc' = ExportFailed /\ clean' = FALSE
              /\ UNCHANGED <<jobs, exporter>>
         ELSE \E n \in Scripts :
                /\ jobs' = Append(jobs, NewJob("project_export", <<project.path>>, n))
                /\ exporter' = Len(jobs) + 1
                /\ pc' = "xp_refresh" /\ clean' = clean
    /\ status' = ""
    /\ UNCHANGED <<tree, stuckable, destProjects, disk, argVars, err, export_folder, exportVars,
                   sleeps, importVars, prev>>

\* export_project: the first exporter.refresh()
ExportProjectRefresh ==
    /\ pc = "xp_refresh"
    /\ calls' = Append(calls, Call("project.exports.refresh", <<project.path>>))
    /\ \E o \in Allowed(ApiOutcomes) :
         Charged(o) /\
         IF o = "error"
         THEN /\ pc' = ExportFailed /\ clean' = FALSE
              /\ jobs' = Abandoned(jobs, exporter)
              /\ status' = status
         ELSE /\ pc' = "xp_wait" /\ clean' = clean
              /\ jobs' = Fetched(jobs, exporter)
              /\ status' = StatusOf(jobs[exporter])
    /\ UNCHANGED <<tree, stuckable, destProjects, disk, argVars, err, export_folder, exportVars,
                   exporter, sleeps, importVars, prev>>

\* export_project: one round of the polling loop, sleep and refresh
ExportProjectPoll ==
    /\ pc = "xp_wait" /\ Waiting(status)
    /\ jobs[exporter].fetches < MaxPolls
    /\ sleeps' = sleeps + 1
    /\ calls' = Append(calls, Call("project.exports.refresh", <<project.path>>))
    /\ \E o \in Allowed(ApiOutcomes) :
         Charged(o) /\
         IF o = "error"
         THEN /\ pc' = ExportFailed /\ clean' = FALSE
              /\ jobs' = Abandoned(Sleep(jobs), exporter)
              /\ status' = status
         ELSE /\ pc' = "xp_wait" /\ clean' = clean
              /\ jobs' = Fetched(Sleep(jobs), exporter)
              /\ status' = StatusOf(Sleep(jobs)[exporter])
    /\ UNCHANGED <<tree, stuckable, destProjects, disk, argVars, err, export_folder, exportVars,
                   exporter, importVars, prev>>

\* export_project: after the loop, open the archive file and download into it;
\* every exception of the download is caught and logged
ExportProjectDownload ==
    /\ pc = "xp_wait" /\ ~Waiting(status)
    /\ LET output_filepath_project == Append(output_path, ProjectArchiveName(project.path))
       IN \E o \in Allowed(DownloadOutcomes) :
            /\ Charged(o)
            /\ disk' = WriteFile(disk, output_filepath_project,
                                 IF o = "ok" THEN "full"
                                 ELSE IF o = "partial" THEN "partial" ELSE "empty",
                                 NoMeta)
            /\ clean' = (clean /\ o = "ok")
    /\ calls' = Append(calls, Call("project.exports.download", <<project.path>>))
    /\ jobs' = Finished(Downloaded(jobs, exporter), exporter)
    /\ pc' = "xp_metadata"
    /\ UNCHANGED <<tree, stuckable, destProjects, argVars, err, export_folder, exportVars,
                   exporter, status, sleeps, importVars, prev>>

\* variant: the sidecar is written only after a successful download
WriteProjectMetadata_OnSuccess(d, archive, obj) ==
    IF Entry(d, archive).data = "full"
    THEN WriteFile(d, get_filepath_project_metadata(archive), "json", MetadataOf(obj))
    ELSE d

\* export_project: the disk after the call of _write_metadata_file for the
\* archive of the project
WriteProjectMetadata(d, archive, obj) ==
    WriteFile(d, get_filepath_project_metadata(archive), "json", MetadataOf(obj))

\* export_project: write the sidecar of the archive
ExportProjectMetadata ==
    /\ pc = "xp_metadata"
    /\ LET output_filepath_project == Append(output_path, ProjectArchiveName(project.path))
       IN IF ~MetadataAsserts(MetadataOf(project))
          THEN Raise("AssertionError") /\ disk' = disk
          ELSE /\ disk' = WriteProjectMetadata(disk, output_filepath_project, project)
               /\ pc' = "ep_next" /\ err' = ""
    /\ UNCHANGED <<tree, stuckable, destProjects, argVars, export_folder, exportVars, exporter,
                   status, jobs, calls, sleeps, importVars, prev, clean, faults>>

\* _export_subprojects_recursive: list the subgroups of the group
ExportSubgroupsList ==
    /\ pc = "es_list"
    /\ calls' = Append(calls, Call("group.subgroups.list", group.full_path))
    /\ \E o \in Allowed(ApiOutcomes) :
         Charged(o) /\
         IF o = "error" THEN Raise("GitlabError") /\ stack' = stack
         ELSE /\ pc' = "es_next" /\ err' = ""
              /\ stack' = <<[subgroups |-> ListSubgroups(tree, group),
                             output_path |-> output_path]>> \o stack
    /\ UNCHANGED <<tree, stuckable,
                   destProjects, disk, argVars, export_folder, group, output_path,
                   todo, project, exporter, status, jobs, sleeps, importVars, prev, clean>>

SubgroupDir_UnderRoot(out, folder, sg) == Append(folder, <<sg.path>>)

\* _export_subprojects_recursive: `output_path.joinpath(subgroup.path)`, the
\* folder of a subgroup lies in the folder the call was given
SubgroupDir(out, folder, sg) == Append(out, <<sg.path>>)

\* _export_subprojects_recursive: next subgroup of the loop: get the full
\* object, create its folder, write its metadata.json
ExportSubgroupGet ==
    /\ pc = "es_next" /\ stack # <<>> /\ stack[1].subgroups # <<>>
    /\ LET subgroup == stack[1].subgroups[1]
           output_path_subdir == SubgroupDir(stack[1].output_path, export_folder,
                                             subgroup)
       IN /\ calls' = Append(calls, Call("groups.get", subgroup.full_path))
          /\ \E o \in Allowed(ApiOutcomes) :
               Charged(o) /\
               IF o = "error"
               THEN Raise("GitlabError") /\ UNCHANGED <<disk, group, output_path, stack>>
               ELSE IF ~MetadataAsserts(MetadataOf(subgroup))
               THEN /\ Raise("AssertionError")
                    /\ disk' = MakeDirs(disk, output_path_subdir)
                    /\ UNCHANGED <<group, output_path, stack>>
               ELSE /\ pc' = "ep_list" /\ err' = ""
                    /\ group' = subgroup
                    /\ output_path' = output_path_subdir
                    /\ disk' = WriteFile(MakeDirs(disk, output_path_subdir),
                                         get_filepath_group_metadata(output_path_subdir),
                                         "json", MetadataOf(subgroup))
                    /\ stack' = [stack EXCEPT ![1].subgroups = Tail(@)]
    /\ UNCHANGED <<tree, stuckable, destProjects, argVars, export_folder, todo, project,
                   exporter, status, jobs, sleeps, importVars, prev, clean>>

\* _export_subprojects_recursive: the loop over the subgroups ends, return
ExportSubgroupsReturn ==
    /\ pc = "es_next" /\ stack # <<>> /\ stack[1].subgroups = <<>>
    /\ stack' = Tail(stack)
    /\ UNCHANGED <<tree, stuckable, destProjects, disk, argVars, pc, err, export_folder, group,
                   output_path, todo, project, exporter, status, jobs, calls, sleeps,
                   importVars, prev, clean>>
    /\ UNCHANGED faults

\* exporting returns to main, which logs "Done." and returns 0
ExportDone ==
    /\ pc = "es_next" /\ stack = <<>>
    /\ pc' = "done"
    /\ UNCHANGED <<tree, stuckable, destProjects, disk, argVars, err, export_folder, exportVars,
                   exporter, status, jobs, calls, sleeps, importVars, prev, clean>>
    /\ UNCHANGED faults

ExportNext ==
    \/ ExportGroupLookup \/ ExportGroupCreate \/ ExportGroupDownload
    \/ ExportProjectsList \/ ExportProjectGet \/ ExportProjectsDone
    \/ ExportProjectCreate \/ ExportProjectRefresh \/ ExportProjectPoll
    \/ ExportProjectDownload \/ ExportProjectMetadata
    \/ ExportSubgroupsList \/ ExportSubgroupGet \/ ExportSubgroupsReturn \/ ExportDone

\* --------------------------------------------------------------------- import
\* path separators of the hosts the program runs on (os.sep)
HostSeps == {"/", "\\"}

RECURSIVE PathStr(_, _)
\* str(Path(...)) of a path given by its components, on a host with separator sep
PathStr(parts, sep) ==
    IF Len(parts) = 0 THEN <<>>
    ELSE IF Len(parts) = 1 THEN parts[1]
    ELSE parts[1] \o <<sep>> \o PathStr(Tail(parts), sep)

\* Path(root).relative_to(export_folder)
RelativeTo(path, base) == SubSeq(path, Len(base) + 1, Len(path))

\* variant: the separators of the host are kept
Namespace_NoNormalise(main_group_path, dir, base, gitlab_root, sep) ==
    LET root_relative == RelativeTo(dir, base)
        joined == PathStr(<< <<main_group_path>> >> \o root_relative, sep)
    IN IF gitlab_root # <<>> THEN gitlab_root \o <<"/">> \o joined ELSE joined

\* _import_projects: the namespace of the directory `dir` of the walk
Namespace(main_group_path, dir, base, gitlab_root, sep) ==
    LET root_relative == RelativeTo(dir, base)
        joined == PathStr(<< <<main_group_path>> >> \o root_relative, sep)
        normalised == Replace(joined, "\\", "/")
    IN IF gitlab_root # <<>> THEN gitlab_root \o <<"/">> \o normalised ELSE normalised

\* f"{namespace}/{slug}"
PathWithNamespace(ns, s) == ns \o <<"/", s>>

\* variant: the lookup never finds the project
get_project_Never(projects, path_with_namespace) == FALSE

\* get_project: whether a project object (not None) is returned
get_project(projects, path_with_namespace) == path_with_namespace \in projects

\* __get_group_exportfile: the group_*.tar.gz files of the folder
GroupExportFiles(d, path) ==
    SelectSeq(Listing(d, path), LAMBDA e : e.kind = "file" /\ FnmatchGroup(Last(e.path)))

\* variant: the flag is ignored
GroupPhase_Always(ng) == TRUE

\* importing: `if not no_groups`
GroupPhase(ng) == ~ng

\* importing: the group phase unless --no-groups
Importing ==
    /\ pc = "importing"
    /\ pc' = IF GroupPhase(no_groups) THEN "ig_check" ELSE "ip_start"
    /\ UNCHANGED <<tree, stuckable, destProjects, disk, argVars, err, export_folder, exportVars,
                   exporter, status, jobs, calls, sleeps, importVars, prev, clean>>
    /\ UNCHANGED faults

\* variant: the check is skipped
check_is_export_folder_Skip(d, path) == TRUE

\* __check_is_export_folder: whether the check passes
check_is_export_folder(d, path) == Exists(d, get_filepath_group_metadata(path))

\* _import_groups: check for metadata.json and read it
ImportGroupsCheck ==
    /\ pc = "ig_check"
    /\ IF ~check_is_export_folder(disk, export_folder)
       THEN Raise("RuntimeError: Path has no metadata file") /\ metadata' = metadata
       ELSE IF ~IsFile(disk, get_filepath_group_metadata(export_folder))
       THEN Raise("FileNotFoundError") /\ metadata' = metadata
       ELSE /\ metadata' = Entry(disk, get_filepath_group_metadata(export_folder)).meta
            /\ pc' = IF arg_root # <<>> THEN "ig_lookup" ELSE "ig_import"
            /\ err' = ""
    /\ parent_id' = PyNone
    /\ UNCHANGED <<tree, stuckable,
                   destProjects, disk, argVars, export_folder, exportVars, exporter,
                   status, jobs, calls, sleeps, walk, files, root, namespace, filepath,
                   slug, name, visited, walked, prev, clean>>
    /\ UNCHANGED faults

ParentFound_Always(g) == TRUE

\* _import_groups: `if group:` on the result of get_group(gitlab_root)
ParentFound(g) == g # PyNone

\* _import_groups: resolve the destination root group
ImportGroupsLookup ==
    /\ pc = "ig_lookup"
    /\ calls' = Append(calls, Call("groups.get", arg_root))
    /\ \E o \in Allowed(ApiOutcomes) :
         Charged(o) /\
         IF o = "error" THEN Raise("GitlabError") /\ parent_id' = parent_id
         ELSE IF ParentFound(DestGroupId(arg_root))
         THEN pc' = "ig_import" /\ err' = "" /\ parent_id' = DestGroupId(arg_root)
         ELSE \* `return False`: importing returns, main ends normally
              pc' = "done" /\ err' = "" /\ parent_id' = parent_id
    /\ UNCHANGED <<tree, stuckable,
                   destProjects, disk, argVars, export_folder, exportVars, exporter,
                   status, jobs, sleeps, metadata, walk, files, root, namespace, filepath,
                   slug, name, visited, walked, prev, clean>>

\* _import_groups: the parent_id argument of import_group
ParentArg(id) == str(id)

\* _import_groups: upload the first group_*.tar.gz of the folder
ImportGroupsImport ==
    /\ pc = "ig_import"
    /\ LET found == GroupExportFiles(disk, export_folder)
       IN IF found = <<>>
          THEN Raise("StopIteration") /\ UNCHANGED <<calls, jobs, faults>>
          ELSE /\ calls' = Append(calls,
                      [op |-> "groups.import_group", target |-> <<metadata.path>>,
                       name |-> metadata.name, file |-> found[1].path,
                       parent |-> ParentArg(parent_id)])
               /\ \E o \in Allowed(ApiOutcomes) :
                    Charged(o) /\
                    IF o = "error" THEN Raise("GitlabError") /\ jobs' = jobs
                    ELSE \E n \in 0..MaxPending :
                           /\ jobs' = Append(jobs,
                                  NewJob("group_import", <<metadata.path>>, n))
                           /\ pc' = "ip_start" /\ err' = ""
    /\ UNCHANGED <<tree, stuckable,
                   destProjects, disk, argVars, export_folder, exportVars, exporter,
                   status, sleeps, importVars, prev, clean>>

\* _import_projects: read the root metadata.json, start the walk
ImportProjectsStart ==
    /\ pc = "ip_start"
    /\ IF ~IsFile(disk, get_filepath_group_metadata(export_folder))
       THEN Raise("FileNotFoundError") /\ UNCHANGED <<metadata, walk>>
       ELSE /\ metadata' = Entry(disk, get_filepath_group_metadata(export_folder)).meta
            /\ walk' = <<export_folder>>
            /\ pc' = "ip_dir" /\ err' = ""
    /\ UNCHANGED <<tree, stuckable,
                   destProjects, disk, argVars, export_folder, exportVars, exporter,
                   status, jobs, calls, sleeps, parent_id, files, root, namespace,
                   filepath, slug, name, visited, walked, prev, clean>>
    /\ UNCHANGED faults

\* _import_projects: os.walk yields the next folder, top-down
ImportWalkDir ==
    /\ pc = "ip_dir" /\ walk # <<>>
    /\ LET entries == Listing(disk, walk[1])
           subdirs == SelectSeq(entries, LAMBDA e : e.kind = "dir")
           fnames == SelectSeq(entries, LAMBDA e : e.kind = "file")
       IN /\ root' = walk[1]
          /\ visited' = visited \cup {walk[1]}
          /\ walk' = [i \in 1..Len(subdirs) |-> subdirs[i].path] \o Tail(walk)
          /\ files' = [i \in 1..Len(fnames) |-> Last(fnames[i].path)]
    /\ \E sep \in HostSeps :
         namespace' = Namespace(metadata.path, root', export_folder, arg_root, sep)
    /\ pc' = "ip_file"
    /\ UNCHANGED <<tree, stuckable, destProjects, disk, argVars, err, export_folder, exportVars,
                   exporter, status, jobs, calls, sleeps, metadata, parent_id, filepath,
                   slug, name, walked, prev, clean>>
    /\ UNCHANGED faults

\* _import_projects returns to importing and main, which ends normally
ImportWalkEnd ==
    /\ pc = "ip_dir" /\ walk = <<>>
    /\ walked' = TRUE
    /\ pc' = "done"
    /\ UNCHANGED <<tree, stuckable, destProjects, disk, argVars, err, export_folder, exportVars,
                   exporter, status, jobs, calls, sleeps, metadata, parent_id, walk, files,
                   root, namespace, filepath, slug, name, visited, prev, clean>>
    /\ UNCHANGED faults

\* _import_projects: the files of the folder are exhausted
ImportFilesEnd ==
    /\ pc = "ip_file" /\ files = <<>>
    /\ pc' = "ip_dir"
    /\ UNCHANGED <<tree, stuckable, destProjects, disk, argVars, err, export_folder, exportVars,
                   exporter, status, jobs, calls, sleeps, importVars, prev, clean>>
    /\ UNCHANGED faults

\* _import_projects: whether the file is handed to _import_project
IsProjectArchive(filename) ==
    /\ ~(FnmatchJson(filename) \/ FnmatchGroup(filename))
    /\ FnmatchProject(filename)

\* _import_projects: a file that is no project archive is skipped
ImportSkipFile ==
    /\ pc = "ip_file" /\ files # <<>> /\ ~IsProjectArchive(files[1])
    /\ files' = Tail(files)
    /\ UNCHANGED <<tree, stuckable,
                   destProjects, disk, argVars, pc, err, export_folder, exportVars,
                   exporter, status, jobs, calls, sleeps, metadata, parent_id, walk, root,
                   namespace, filepath, slug, name, visited, walked, prev, clean>>
    /\ UNCHANGED faults

\* _import_project: read the sidecar of the archive
ImportArchive ==
    /\ pc = "ip_file" /\ files # <<>> /\ IsProjectArchive(files[1])
    /\ files' = Tail(files)
    /\ filepath' = Append(root, files[1])
    /\ IF ~IsFile(disk, get_filepath_project_metadata(filepath'))
       THEN Raise("FileNotFoundError") /\ UNCHANGED <<slug, name>>
       ELSE LET md == Entry(disk, get_filepath_project_metadata(filepath')).meta
            IN slug' = md.path /\ name' = md.name /\ pc' = "ip_lookup" /\ err' = ""
    /\ UNCHANGED <<tree, stuckable, destProjects, disk, argVars, export_folder, exportVars,
                   exporter, status, jobs, calls, sleeps, metadata, parent_id, walk, root,
                   namespace, visited, walked, prev, clean>>
    /\ UNCHANGED faults

\* _import_project: skip the archive if the project exists
ImportProjectLookup ==
    /\ pc = "ip_lookup"
    /\ calls' = Append(calls, Call("projects.get", PathWithNamespace(namespace, slug)))
    /\ \E o \in Allowed(ApiOutcomes) :
         Charged(o) /\
         IF o = "error" THEN Raise("GitlabError")
         ELSE IF get_project(destProjects, PathWithNamespace(namespace, slug))
         THEN pc' = "ip_file" /\ err' = ""
         ELSE pc' = "ip_upload" /\ err' = ""
    /\ UNCHANGED <<tree, stuckable, destProjects, disk, argVars, export_folder, exportVars,
                   exporter, status, jobs, sleeps, importVars, prev, clean>>

ImportFailed_Retry == "ip_upload"

\* import_project: a failed upload or status fetch is logged and the call
\* returns to the loop over the files of _import_projects
ImportFailed == "ip_file"

\* __import_project_upload: upload the archive as a new project
ImportProjectUpload ==
    /\ pc = "ip_upload"
    /\ calls' = Append(calls,
           [op |-> "projects.import_project", target |-> namespace \o <<"/", slug>>,
            name |-> name, file |-> filepath, parent |-> PyNone])
    /\ \E o \in Allowed(ApiOutcomes) :
         Charged(o) /\
         IF o = "error"
         THEN /\ pc' = ImportFailed /\ clean' = FALSE
              /\ UNCHANGED <<jobs, exporter, destProjects>>
         ELSE \E n \in Scripts :
                /\ jobs' = Append(jobs,
                       NewJob("project_import", PathWithNamespace(namespace, slug), n))
                /\ exporter' = Len(jobs) + 1
                /\ destProjects' = destProjects \cup {PathWithNamespace(namespace, slug)}
                /\ pc' = "ip_status" /\ clean' = clean
    /\ status' = ""
    /\ UNCHANGED <<tree, stuckable, disk, argVars, err, export_folder, exportVars, sleeps,
                   importVars, prev>>

\* __import_project_wait_done: the first fetch of the import status
ImportProjectStatus ==
    /\ pc = "ip_status"
    /\ calls' = Append(calls, Call("project.imports.get", jobs[exporter].target))
    /\ \E o \in Allowed(ApiOutcomes) :
         Charged(o) /\
         IF o = "error"
         THEN /\ pc' = ImportFailed /\ clean' = FALSE
              /\ jobs' = Abandoned(jobs, exporter)
              /\ status' = status
         ELSE /\ pc' = "ip_wait" /\ clean' = clean
              /\ jobs' = Fetched(jobs, exporter)
              /\ status' = StatusOf(jobs[exporter])
    /\ UNCHANGED <<tree, stuckable, destProjects, disk, argVars, err, export_folder, exportVars,
                   exporter, sleeps, importVars, prev>>

\* __import_project_wait_done: one round of the polling loop
ImportProjectPoll ==
    /\ pc = "ip_wait" /\ Waiting(status)
    /\ jobs[exporter].fetches < MaxPolls
    /\ sleeps' = sleeps + 1
    /\ calls' = Append(calls, Call("project.imports.refresh", jobs[exporter].target))
    /\ \E o \in Allowed(ApiOutcomes) :
         Charged(o) /\
         IF o = "error"
         THEN /\ pc' = ImportFailed /\ clean' = FALSE
              /\ jobs' = Abandoned(Sleep(jobs), exporter)
              /\ status' = status
         ELSE /\ pc' = "ip_wait" /\ clean' = clean
              /\ jobs' = Fetched(Sleep(jobs), exporter)
              /\ status' = StatusOf(Sleep(jobs)[exporter])
    /\ UNCHANGED <<tree, stuckable, destProjects, disk, argVars, err, export_folder, exportVars,
                   exporter, importVars, prev>>

\* __import_project_wait_done: the loop has ended, "Import finished"
ImportProjectFinished ==
    /\ pc = "ip_wait" /\ ~Waiting(status)
    /\ jobs' = Finished(jobs, exporter)
    /\ pc' = "ip_file"
    /\ UNCHANGED <<tree, stuckable, destProjects, disk, argVars, err, export_folder, exportVars,
                   exporter, status, calls, sleeps, importVars, prev, clean>>
    /\ UNCHANGED faults

ImportNext ==
    \/ Importing \/ ImportGroupsCheck \/ ImportGroupsLookup \/ ImportGroupsImport
    \/ ImportProjectsStart \/ ImportWalkDir \/ ImportWalkEnd \/ ImportFilesEnd
    \/ ImportSkipFile \/ ImportArchive \/ ImportProjectLookup \/ ImportProjectUpload
    \/ ImportProjectStatus \/ ImportProjectPoll \/ ImportProjectFinished

Next == MainStart \/ MainConnect \/ ExportNext \/ ImportNext

Spec == Init /\ [][Next]_vars

\* ------------------------------------------------------------- exports only
\* the runs of --export alone, over more group trees
ExportStart == MainStart /\ mode' = "export"

ExportInit == InitOf(ExportTrees, {FALSE})

ExportOnlyNext == ExportStart \/ MainConnect \/ ExportNext

ExportSpec == ExportInit /\ [][ExportOnlyNext]_vars

\* ------------------------------------------------- jobs that never finish
\* the runs over a remote side that may leave a project job unfinished for
\* ever; the process, once started, keeps taking its steps
LiveInit == InitOf({SmallTree}, {TRUE})

\* one export of the group, then imports of its folder into a destination
\* that has none of its projects yet
LiveStart ==
    /\ MainStart
    /\ mode' = "export" => arg_root' = <<"teamA">>
    /\ mode' = "import" =>
         /\ destProjects = {}
         /\ arg_root' = <<"destgrp">> /\ directory' = << <<"teamA">> >>

Step == MainConnect \/ ExportNext \/ ImportNext

LiveNext == LiveStart \/ Step

LiveSpec == LiveInit /\ [][LiveNext]_vars /\ WF_vars(Step)

\* =================================================================== claims
ProjectArchives == {i \in 1..Len(disk) :
                      disk[i].kind = "file" /\ FnmatchProject(Last(disk[i].path))}

ExportEnded == mode = "export" /\ pc \in {"done", "crashed"}

\* C1: once an export run has ended, every project archive on the disk has,
\* in the same folder, a sidecar <archive name>.json that holds at least the
\* fields name and path, whatever the outcome of the download was
C1_SidecarForEveryArchive ==
    ExportEnded =>
      \A i \in ProjectArchives :
        LET sidecar == Append(Front(disk[i].path), Last(disk[i].path) \o <<".json">>)
        IN /\ IsFile(disk, sidecar)
           /\ {"name", "path"} \subseteq DOMAIN Entry(disk, sidecar).meta

\* an export has ended and left an archive whose download did not succeed
C1_Witness ==
    /\ mode = "export" /\ pc = "done"
    /\ \E i \in ProjectArchives : disk[i].data # "full"

CallsWithOp(ops) == {i \in 1..Len(calls) : calls[i].op \in ops}

ProjectImportOps == {"projects.import_project", "project.imports.get",
                     "project.imports.refresh"}

\* the run repeats the previous import run, which walked the whole folder and
\* abandoned no archive
RepeatsCompleteImport ==
    /\ mode = "import" /\ prev.complete
    /\ prev.arg_root = arg_root /\ prev.directory = directory

ExpectedNamespace(dir) ==
    LET rel == RelativeTo(dir, export_folder)
    IN JoinWith((IF arg_root = <<>> THEN <<>> ELSE arg_root)
                  \o <<metadata.path>> \o [i \in 1..Len(rel) |-> rel[i][1]], "/")

InProjectsOfFolder == pc \in {"ip_file", "ip_lookup", "ip_upload", "ip_status", "ip_wait"}

\* C3: for every folder the walk of the import visits, the namespace is the
\* destination root (if given), the root group path and the names of the
\* relative subpath joined with "/" only, and every project import request
\* is made in the namespace of the folder of its archive
C3_NamespaceOfFolder ==
    /\ (mode = "import" /\ InProjectsOfFolder) => namespace = ExpectedNamespace(root)
    /\ (mode = "import" /\ InProjectsOfFolder /\ arg_root = <<"destgrp">>
          /\ root = << <<"teamA">>, <<"sub1">> >>)
         => namespace = <<"destgrp", "/", "teamA", "/", "sub1">>
    /\ \A i \in CallsWithOp({"projects.import_project"}) :
         calls[i].target = ExpectedNamespace(Front(calls[i].file))
                             \o <<"/", Last(calls[i].target)>>

\* svc1 and svc2 have been uploaded under destgrp
C3_Witness ==
    /\ \E i \in CallsWithOp({"projects.import_project"}) :
         calls[i].target = <<"destgrp", "/", "teamA", "/", "svc1">>
    /\ \E i \in CallsWithOp({"projects.import_project"}) :
         calls[i].target = <<"destgrp", "/", "teamA", "/", "sub1", "/", "svc2">>

\* the import runs on an existing folder without metadata.json
NoRootMetadata ==
    /\ mode = "import" /\ IsDir(disk, directory)
    /\ ~Exists(disk, Append(directory, METADATA_FILENAME))

\* C4 as stated: a folder without metadata.json is rejected by the group
\* phase before any call to the remote instance, the version and auth calls
\* included
C4_NoCallBeforeRejection ==
    (NoRootMetadata /\ err = "RuntimeError: Path has no metadata file") => calls = <<>>

\* C4 amended: on a folder without metadata.json the only calls to the remote
\* instance are main's version and auth calls; no job is created, no phase
\* gets past its read of metadata.json, and with the group phase enabled the
\* run ends with the RuntimeError of the group phase
C4_OnlyConnectCallsBeforeRejection ==
    NoRootMetadata =>
      /\ \A i \in 1..Len(calls) : calls[i].op \in {"version", "auth"}
      /\ jobs = <<>>
      /\ pc \in {"connect", "importing", "ig_check", "ip_start", "crashed"}
      /\ (pc = "crashed" /\ ~no_groups /\ err # "GitlabAuthenticationError")
           => err = "RuntimeError: Path has no metadata file"

\* the group phase has rejected the folder after the two calls of main
C4_Witness ==
    /\ NoRootMetadata /\ pc = "crashed"
    /\ err = "RuntimeError: Path has no metadata file"
    /\ Len(calls) = 2

ProjectJobs == {i \in 1..Len(jobs) : jobs[i].kind \in {"project_export", "project_import"}}

\* C5: a polling loop is left normally only on the status 'finished': a job
\* that needs n sleep intervals is fetched exactly n + 1 times (3 times when
\* it reports 'started' twice), its archive is downloaded exactly once
\* (export) or was uploaded exactly once (import), and no download starts
\* while the last fetched status is not 'finished'
C5_PollingUntilFinished ==
    /\ \A i \in ProjectJobs :
         /\ jobs[i].state = "finished" =>
              jobs[i].pending = 0 /\ jobs[i].fetches = jobs[i].script + 1
         /\ jobs[i].downloads <= 1
         /\ jobs[i].downloads = 1 => jobs[i].state = "finished"
         /\ (jobs[i].kind = "project_export" /\ jobs[i].state = "finished")
              => jobs[i].downloads = 1
         /\ jobs[i].kind = "project_import" =>
              Cardinality({c \in CallsWithOp({"projects.import_project"}) :
                             calls[c].target = jobs[i].target}) = 1
    /\ pc = "xp_metadata" => status = "finished"

\* a project export that reported 'started' twice was fetched three times and
\* downloaded once
C5_Witness ==
    \E i \in ProjectJobs :
      /\ jobs[i].kind = "project_export" /\ jobs[i].script = 2
      /\ jobs[i].fetches = 3 /\ jobs[i].downloads = 1

GroupById(t, id) == t.groups[CHOOSE i \in 1..Len(t.groups) : t.groups[i].id = id]

RECURSIVE GroupDir(_, _)
\* the folder of a group of the exported tree: the paths of its ancestors
GroupDir(t, g) ==
    IF g.parent_id = 0 THEN << <<g.path>> >>
    ELSE Append(GroupDir(t, GroupById(t, g.parent_id)), <<g.path>>)

\* the paths of the tree that mirrors the group hierarchy
ExpectedPaths(t) ==
    LET G == Range(t.groups)
        P == Range(t.projects)
        archive(p) == Append(GroupDir(t, GroupById(t, p.group)), ProjectArchiveName(p.path))
    IN {GroupDir(t, g) : g \in G}
         \cup {Append(GroupDir(t, g), METADATA_FILENAME) : g \in G}
         \cup {Append(GroupDir(t, g), GroupArchiveName(g.path)) : g \in {h \in G : h.parent_id = 0}}
         \cup {archive(p) : p \in P}
         \cup {Append(Front(archive(p)), Last(archive(p)) \o <<".json">>) : p \in P}

\* C6 as stated: an export in which every remote call succeeds leaves exactly
\* the tree that mirrors the group hierarchy: a folder with metadata.json per
\* group at every depth, the group archive in the root folder, and archive
\* and sidecar of every project in the folder of its group
C6_TreeMirrored ==
    (mode = "export" /\ pc = "done" /\ faults = 0)
      => {disk[i].path : i \in 1..Len(disk)} = ExpectedPaths(tree)

\* C7 as stated: at every moment at most one job created by the run is
\* unfinished on the remote side
C7_JobsNeverOverlap ==
    Cardinality({i \in 1..Len(jobs) : jobs[i].pending > 0}) <= 1

\* the export is given the path of a group that does not exist
RootMissing == mode = "export" /\ RemoteGroupByPath(tree, arg_root) = NoGroup

\* C8: if the root group of an export cannot be resolved, no job is created,
\* nothing is written to the disk, no group or project is processed, and the
\* lookup that returns not-found ends the run with "No such group"
C8_NoSuchGroup ==
    /\ [](RootMissing =>
            /\ jobs = <<>> /\ disk = <<>>
            /\ pc \in {"connect", "export_group", "crashed"}
            /\ \A i \in 1..Len(calls) : calls[i].op \in {"version", "auth", "groups.get"})
    /\ [][(RootMissing /\ pc = "export_group" /\ faults' = faults)
            => (pc' = "crashed" /\ err' = "RuntimeError: No such group")]_vars

\* the export has ended with "No such group"
C8_Witness ==
    RootMissing /\ pc = "crashed" /\ err = "RuntimeError: No such group"

\* the folders the walk of the import has to visit
FoldersUnder(base) ==
    {base} \cup {disk[i].path : i \in {j \in 1..Len(disk) :
                    /\ disk[j].kind = "dir" /\ Len(disk[j].path) > Len(base)
                    /\ SubSeq(disk[j].path, 1, Len(base)) = base}}

\* C9: with --no-groups no group lookup and no group import is made and a run
\* that ends normally has walked every folder; without --no-groups every
\* project lookup and project import request comes after a group-import call
\* that has returned
C9_ImportPhaseOrder ==
    /\ (mode = "import" /\ no_groups) =>
         /\ CallsWithOp({"groups.get", "groups.import_group"}) = {}
         /\ \A i \in 1..Len(jobs) : jobs[i].kind # "group_import"
         /\ pc = "done" => (walked /\ visited = FoldersUnder(export_folder))
    /\ (mode = "import" /\ ~no_groups) =>
         \A i \in CallsWithOp({"projects.get"} \cup ProjectImportOps) :
           /\ \E j \in 1..(i - 1) : calls[j].op = "groups.import_group"
           /\ jobs # <<>> /\ jobs[1].kind = "group_import"

\* an import with --no-groups has walked several folders and uploaded a project
C9_Witness ==
    /\ mode = "import" /\ no_groups /\ pc = "done" /\ walked
    /\ Cardinality(visited) >= 2
    /\ CallsWithOp({"projects.import_project"}) # {}

\* C10 as stated: at most one group-import call per run, with the archive of
\* the root folder and the name and path of the root metadata.json; its
\* parent argument is the id of the destination root group if one is given,
\* and no parent (None) otherwise
C10_GroupImportCall ==
    /\ Cardinality(CallsWithOp({"groups.import_group"})) <= 1
    /\ \A i \in CallsWithOp({"groups.import_group"}) :
         /\ calls[i].file = Append(export_folder, GroupArchiveName(metadata.path))
         /\ calls[i].name = metadata.name /\ calls[i].target = <<metadata.path>>
         /\ arg_root # <<>> =>
              calls[i].parent \in {DestGroupId(arg_root), str(DestGroupId(arg_root))}
         /\ arg_root = <<>> => calls[i].parent = PyNone

\* an import with the group phase, to a destination root path at which the
\* destination instance has no group
MissingDestRoot ==
    /\ mode = "import" /\ ~no_groups
    /\ arg_root # <<>> /\ DestGroupId(arg_root) = PyNone

\* C11: an import with the group phase whose destination root path names no
\* group makes no group-import call, no project lookup, no upload and no
\* status fetch, visits no folder, and leaves the destination's projects as
\* they were
C11_MissingRootFailsImport ==
    /\ [](MissingDestRoot =>
            /\ CallsWithOp({"groups.import_group", "projects.get"}
                           \cup ProjectImportOps) = {}
            /\ jobs = <<>> /\ visited = {} /\ ~walked)
    /\ [][MissingDestRoot' => destProjects' = destProjects]_vars

\* such an import has looked up the destination root and ended
C11_Witness ==
    /\ MissingDestRoot /\ pc = "done"
    /\ \E i \in CallsWithOp({"groups.get"}) : calls[i].target = arg_root

RECURSIVE ExportOrderOf(_, _)
\* the projects below the given groups in the order of the export: the
\* projects of a group, then its subgroups in the order of their listing
ExportOrderOf(t, gs) ==
    IF gs = <<>> THEN <<>>
    ELSE [i \in 1..Len(ListProjects(t, gs[1])) |-> <<ListProjects(t, gs[1])[i].path>>]
           \o ExportOrderOf(t, ListSubgroups(t, gs[1]))
           \o ExportOrderOf(t, Tail(gs))

ExportOrder(t) == ExportOrderOf(t, <<get_group(t, arg_root)>>)

\* the targets of the project export jobs the run has asked for, in order
ExportsCreated ==
    LET cs == SelectSeq(calls, LAMBDA c : c.op = "project.exports.create")
    IN [i \in 1..Len(cs) |-> cs[i].target]

\* the export job of the project was not created, or a fetch of its status failed
ExportAborted(p) ==
    /\ <<p.path>> \in Range(ExportsCreated)
    /\ \A i \in 1..Len(jobs) :
         (jobs[i].kind = "project_export" /\ jobs[i].target = <<p.path>>) =>
           jobs[i].state = "abandoned"

ProjectArchive(t, p) ==
    Append(GroupDir(t, GroupById(t, p.group)), ProjectArchiveName(p.path))

\* C12: a project whose export job could not be created or polled has no
\* archive and no sidecar; a run that ends normally has asked for the export
\* of every project of the tree, in the order of the walk, whichever of them
\* were aborted, and every project whose job it saw finish has archive and
\* sidecar
C12_OnlyThatProjectAborted ==
    mode = "export" =>
      /\ \A p \in Range(tree.projects) :
           /\ ExportAborted(p) =>
                /\ ~Exists(disk, ProjectArchive(tree, p))
                /\ ~Exists(disk, get_filepath_project_metadata(ProjectArchive(tree, p)))
           /\ (pc = "done" /\ ~ExportAborted(p)) =>
                /\ IsFile(disk, ProjectArchive(tree, p))
                /\ IsFile(disk, get_filepath_project_metadata(ProjectArchive(tree, p)))
      /\ pc = "done" => ExportsCreated = ExportOrder(tree)

\* the export of the first of three projects was aborted, the run has ended
\* with the two others exported
C12_Witness ==
    /\ mode = "export" /\ pc = "done" /\ Len(tree.projects) = 3
    /\ ExportAborted(tree.projects[1])
    /\ \A i \in 2..3 : IsFile(disk, ProjectArchive(tree, tree.projects[i]))

\* the run has asked for the export job of the root group and got none
GroupExportCreateFailed ==
    /\ mode = "export" /\ CallsWithOp({"group.exports.create"}) # {}
    /\ \A i \in 1..Len(jobs) : jobs[i].kind # "group_export"

\* C13 as stated: after a failed creation of the root group's export job no
\* download is requested and the run does not end in an unhandled error
C13_GroupCreateFailureRecoverable ==
    GroupExportCreateFailed =>
      /\ CallsWithOp({"group.exports.download"}) = {}
      /\ pc # "crashed"

\* C14 as stated: in the project phase of an import no failed API call ends
\* the run, whichever stage of an archive's handling it belongs to (existence
\* lookup, upload, first or later fetch of the import status), and a status
\* is only fetched for an archive whose upload has succeeded
C14_ArchiveFailureIsLocal ==
    mode = "import" =>
      /\ (pc = "crashed" /\ err = "GitlabError") =>
           calls[Len(calls)].op \notin {"projects.get"} \cup ProjectImportOps
      /\ \A i \in CallsWithOp({"project.imports.get", "project.imports.refresh"}) :
           \E j \in 1..Len(jobs) :
             jobs[j].kind = "project_import" /\ jobs[j].target = calls[i].target

\* no two calls of the operation in the log of the run have the same target
OncePerTarget(op) ==
    \A i, j \in CallsWithOp({op}) : calls[i].target = calls[j].target => i = j

\* C15: a run creates at most one export job and attempts at most one
\* download per project and for the root group, makes at most one
\* group-import call and at most one upload per project archive, whatever
\* calls have failed
C15_NothingRetried ==
    /\ OncePerTarget("project.exports.create")
    /\ OncePerTarget("project.exports.download")
    /\ Cardinality(CallsWithOp({"group.exports.create"})) <= 1
    /\ Cardinality(CallsWithOp({"group.exports.download"})) <= 1
    /\ Cardinality(CallsWithOp({"groups.import_group"})) <= 1
    /\ \A i, j \in CallsWithOp({"projects.import_project"}) :
         calls[i].file = calls[j].file => i = j
    /\ \A i \in 1..Len(jobs) : jobs[i].downloads <= 1

\* an import run has ended after an upload that failed
C15_Witness ==
    /\ mode = "import" /\ pc = "done" /\ walked
    /\ \E i \in CallsWithOp({"projects.import_project"}) :
         \A j \in 1..Len(jobs) : jobs[j].target # calls[i].target

GroupExportJobs == {i \in 1..Len(jobs) : jobs[i].kind = "group_export"}

\* C16: an export run asks for one group export job, that of the root group,
\* as soon as it has found the group; between the creation and the download
\* it sleeps once, it never fetches the status of the job, and it requests
\* the download of a created job once; the only group archive on disk is
\* that of the root folder, and every subgroup folder holds a metadata.json
C16_OneGroupExportJob ==
    mode = "export" =>
      /\ \A i \in CallsWithOp({"group.exports.create", "group.exports.download"}) :
           calls[i].target = arg_root
      /\ Cardinality(CallsWithOp({"group.exports.create"})) =
           (IF group # NoGroup /\ pc # "eg_create" THEN 1 ELSE 0)
      /\ Cardinality(GroupExportJobs) <= 1
      /\ \A i \in GroupExportJobs :
           /\ jobs[i].target = arg_root /\ jobs[i].fetches = 0
           /\ jobs[i].downloads = (IF pc = "eg_download" THEN 0 ELSE 1)
           /\ Cardinality(CallsWithOp({"group.exports.download"})) = jobs[i].downloads
      /\ pc = "eg_download" => sleeps = 1
      /\ \A k \in 1..Len(disk) :
           /\ (disk[k].kind = "file" /\ FnmatchGroup(Last(disk[k].path))) =>
                disk[k].path = <<arg_root, GroupArchiveName(get_group(tree, arg_root).path)>>
           /\ (disk[k].kind = "dir" /\ Len(disk[k].path) >= 2) =>
                IsFile(disk, get_filepath_group_metadata(disk[k].path))

\* the export of a tree with nested subgroups has ended normally
C16_Witness ==
    /\ mode = "export" /\ pc = "done" /\ GroupExportJobs # {}
    /\ \E k \in 1..Len(disk) : disk[k].kind = "dir" /\ Len(disk[k].path) >= 3

\* C18: a root folder that holds metadata.json holds a completely downloaded
\* group_*.tar.gz, in every state of an export and afterwards, and the group
\* phase of an import never fails to find the group archive of its folder
C18_RootMetadataAfterArchive ==
    /\ \A k \in 1..Len(disk) :
         (disk[k].kind = "file" /\ Len(disk[k].path) = 2
            /\ Last(disk[k].path) = METADATA_FILENAME) =>
           \E a \in 1..Len(disk) :
             /\ disk[a].kind = "file" /\ disk[a].data = "full"
             /\ Front(disk[a].path) = Front(disk[k].path)
             /\ FnmatchGroup(Last(disk[a].path))
    /\ err # "StopIteration"

\* the group phase of an import has uploaded the group archive of an
\* exported root folder
C18_Witness ==
    /\ mode = "import" /\ directory # <<>>
    /\ IsFile(disk, get_filepath_group_metadata(directory))
    /\ \E i \in CallsWithOp({"groups.import_group"}) :
         IsFile(disk, calls[i].file) /\ FnmatchGroup(Last(calls[i].file))

\* C19: the export_folder field changes only in _export_group, to the folder
\* of the root group below the given folder (and when a new run constructs
\* the orchestrator); it keeps that value for the rest of the run, and every
\* path an export writes is the folder of a group of the tree, given by the
\* paths of its ancestors, or a file of that group in it
C19_ExportFolderSetOnce ==
    /\ [][export_folder' # export_folder =>
            \/ pc \in {"idle", "done", "crashed"}
            \/ /\ pc = "eg_create"
               /\ export_folder' = Append(export_folder, <<group.path>>)]_vars
    /\ [](mode = "export" =>
            /\ (group # NoGroup /\ pc # "eg_create") =>
                 export_folder = << <<get_group(tree, arg_root).path>> >>
            /\ LET expected == ExpectedPaths(tree)
               IN \A k \in 1..Len(disk) :
                    /\ disk[k].path \in expected
                    /\ disk[k].path[1] = <<get_group(tree, arg_root).path>>)

\* an export has written the project of a subgroup of a subgroup, in a tree
\* whose listing gives the sibling subgroups in the other order
C19_Witness ==
    /\ mode = "export" /\ pc = "done" /\ tree = DeepTreeSwapped
    /\ export_folder = << <<"teamA">> >>
    /\ IsFile(disk, << <<"teamA">>, <<"sub1">>, <<"deep">>, ProjectArchiveName("svc2") >>)
    /\ IsFile(disk, << <<"teamA">>, <<"sub2">>, METADATA_FILENAME >>)

\* the run is in a polling loop on a job that never finishes
StuckPolling ==
    /\ pc \in {"xp_wait", "ip_wait"} /\ exporter # 0 /\ jobs[exporter].stuck

\* C17: a run ends unless it polls a project job that never finishes, and a
\* fetch of the status of such a job that does not fail leaves the run in
\* the same polling loop on the same job: no other project, file or folder
\* is taken up, no job is created and nothing is written
C17_PollingWithoutTimeout ==
    /\ (pc = "connect") ~> (pc \in {"done", "crashed"} \/ StuckPolling)
    /\ [][(StuckPolling /\ faults' = faults) =>
            /\ StuckPolling' /\ pc' = pc /\ exporter' = exporter
            /\ Len(jobs') = Len(jobs) /\ disk' = disk
            /\ todo' = todo /\ stack' = stack /\ project' = project
            /\ walk' = walk /\ files' = files /\ filepath' = filepath]_vars

\* an export polls a job that never finishes while a later project waits
C17_Witness ==
    /\ StuckPolling /\ mode = "export" /\ stack # <<>>
    /\ jobs[exporter].fetches = MaxPolls

====
